---- MODULE Spec2Model ----
(***************************************************************************)
(* MathSolver MY: the App component (gating screen, premium purchase,      *)
(* solve effect), the gemini service wrapper and the file-upload / crop    *)
(* widget, modelled as a state machine.                                    *)
(*                                                                         *)
(* One step of the model is one event-loop task of the page: a DOM event   *)
(* handler or the continuation of an await, together with the React        *)
(* re-render and the effects that the state change triggers.               *)
(***************************************************************************)
EXTENDS Integers, Sequences, FiniteSets, Bags, TLC

VARIABLES
    \* ---- App.tsx useState cells (src/App.tsx:34-43)
    selectedFile, solution, loading, error, language, activeTab,
    hasSelectedApiKey, isPremiumUser, purchaseLoading, proceedWithApiKey,
    \* ---- browser environment
    localStorage,      \* value stored under the key 'isPremiumUser'
    aistudio,          \* window.aistudio is present
    apiKey,            \* process.env.API_KEY is set
    \* ---- asynchronous work in flight
    pending,           \* bag of the solveMathProblem calls not yet settled
    purchasePc,        \* handlePurchasePremium: "idle" or "timer"
    checkPending,      \* checkStatus awaits window.aistudio.hasSelectedApiKey()
    selectPending,     \* handleSelectApiKey runs awaiting openSelectKey()
    \* ---- FileUpload component
    widget,            \* "plain" (components/FileUpload.tsx) or "crop"
    isCropping, croppedAreaSet,
    \* ---- history of the last step
    ev,                \* name of the handler or continuation that ran
    started,           \* the step called solveMathProblem
    escaped,           \* the step let an exception escape its async function
    storedAtMount,     \* checkStatus read 'true' from localStorage at mount
    unlockEvent,       \* since mount: handleProceedWithApiKey ran or a purchase succeeded
    purchased,         \* a purchase has succeeded (in this or an earlier page load)
    settled,           \* the solveMathProblem call the step saw settle, if any
    \* ---- crop interface of FileUpload (part_003:18-30, 228-229)
    imgW, imgH,        \* natural size of the photo behind imageToCropUrl
    crop, zoom, rotation, croppedAreaPixels, imageLoading, imageError,
    isDragging, startPoint,
    imageRefSet,       \* imageRef.current holds the loaded image
    canvasMounted,     \* canvasRef.current holds a canvas element
    canvasW, canvasH,  \* its width and height attributes
    drawn,             \* transform under which the image is on its raster
    loads,             \* bag of the createImage calls not yet settled
    exported           \* what getCroppedImg rendered and cut out

appVars == <<selectedFile, solution, loading, error, language, activeTab,
             hasSelectedApiKey, isPremiumUser, purchaseLoading, proceedWithApiKey>>
envVars == <<localStorage, aistudio, apiKey>>
asyncVars == <<pending, purchasePc, checkPending, selectPending>>
widgetVars == <<widget, isCropping, croppedAreaSet>>
histVars == <<ev, started, escaped, storedAtMount, unlockEvent, purchased, settled>>
geo == <<imgW, imgH, crop, zoom, rotation, croppedAreaPixels, imageLoading,
         imageError, isDragging, startPoint, imageRefSet, canvasMounted,
         canvasW, canvasH, drawn, loads, exported>>
vars == <<appVars, envVars, asyncVars, widgetVars, histVars, geo>>

(***************************************************************************)
(* Bounds                                                                  *)
(***************************************************************************)
MaxPending == 1     \* solve requests in flight at once
MaxDialogs == 1     \* openSelectKey dialogs awaited at once
MaxLoads == 2       \* createImage calls in flight at once
MaxZoom == 2        \* zoom slider values 1..MaxZoom
MaxDrag == 1        \* pointer positions 0..MaxDrag along the drag line
MaxAspect == 2      \* photos of 100*k x 100 pixels, k in 1..MaxAspect

(***************************************************************************)
(* Values                                                                  *)
(***************************************************************************)
NoFile == "null"
Files == {"original", "cropped"}
Languages == {"en", "ms"}
StoredValues == {"null", "true", "false"}   \* "null": the key is absent

NoError == "null"

\* A JavaScript value as far as the solution display needs it: its type, the
\* MathSolution fields it has, and which of those hold arrays.
JsNull == [type |-> "null", fields |-> {}, lists |-> {}]
JsUndefined == [type |-> "undefined", fields |-> {}, lists |-> {}]
JsNumber == [type |-> "number", fields |-> {}, lists |-> {}]
JsObject(fs, ls) == [type |-> "object", fields |-> fs, lists |-> ls]

SolutionFields == {"titleEn", "titleMs", "solutionEn", "solutionMs", "stepsEn", "stepsMs"}
StepFields == {"stepsEn", "stepsMs"}

\* JavaScript truthiness of the values above.
Truthy(v) == v.type \in {"object", "number"}

(***************************************************************************)
(* services/geminiService: fileToBase64, solveMathProblem                  *)
(***************************************************************************)
\* A thrown or rejected value: whether it has a string .message, and the
\* phrases that message contains (String.prototype.includes is membership).
Thrown(hasMsg, ps) == [hasMessage |-> hasMsg, phrases |-> ps]

PhraseNotFound == "Requested entity was not found."
PhraseParse == "Failed to parse model response"
PhraseEmpty == "Model returned an empty response or invalid JSON."
PhraseRead == "Failed to read file as data URL."
PhraseNetwork == "fetch failed"

\* response.text of the model: undefined, or a string with optional
\* surrounding white space around a body.
TextUndefined == [defined |-> FALSE, pad |-> FALSE, body |-> ""]
Text(pad, body) == [defined |-> TRUE, pad |-> pad, body |-> body]

BodyComplete == "{solution:{titleEn,titleMs,solutionEn,solutionMs,stepsEn:[],stepsMs:[]}}"
BodyPartial == "{solution:{titleEn,solutionEn,stepsEn:[]}}"
BodyStepsNotList == "{solution:{titleEn,titleMs,solutionEn,solutionMs,stepsEn:'',stepsMs:''}}"
BodyEmptySolution == "{solution:{}}"
BodyNumberSolution == "{solution:5}"
BodyNullSolution == "{solution:null}"
BodyNoSolution == "{}"
BodyNull == "null"
BodyNotJson == "Sorry, I cannot"
BodyNotJsonNotFound == "Error: Requested entity was not found."

JsonBodies == {BodyComplete, BodyPartial, BodyStepsNotList, BodyEmptySolution,
               BodyNumberSolution, BodyNullSolution, BodyNoSolution, BodyNull}
Bodies == JsonBodies \cup {"", BodyNotJson, BodyNotJsonNotFound}
Texts == {TextUndefined} \cup {Text(p, b) : p \in BOOLEAN, b \in Bodies}

\* response.text?.trim(): undefined stays undefined (modelled as the empty
\* body, both are falsy), otherwise the padding is removed.
Trim(t) == IF t.defined THEN t.body ELSE ""

\* JSON.parse on the bodies above: the parsed top-level value, as its type
\* and the value of its .solution member.
Parsed(type, sol) == [type |-> type, solution |-> sol]

JSONparse(b) ==
    CASE b = BodyComplete       -> Parsed("object", JsObject(SolutionFields, StepFields))
      [] b = BodyPartial        -> Parsed("object", JsObject({"titleEn", "solutionEn", "stepsEn"}, {"stepsEn"}))
      [] b = BodyStepsNotList   -> Parsed("object", JsObject(SolutionFields, {}))
      [] b = BodyEmptySolution  -> Parsed("object", JsObject({}, {}))
      [] b = BodyNumberSolution -> Parsed("object", JsNumber)
      [] b = BodyNullSolution   -> Parsed("object", JsNull)
      [] b = BodyNoSolution     -> Parsed("object", JsUndefined)
      [] b = BodyNull           -> Parsed("null", JsUndefined)

\* Phrases of interest that a body contains (it is echoed in the parse error).
BodyPhrases(b) == IF b = BodyNotJsonNotFound THEN {PhraseNotFound} ELSE {}

\* Outcome of a promise.
Resolved(v) == [ok |-> TRUE, value |-> v, err |-> Thrown(FALSE, {})]
Rejected(e) == [ok |-> FALSE, value |-> Parsed("null", JsUndefined), err |-> e]

\* fileToBase64: reader.onload with a string result resolves, with another
\* result rejects with an Error; reader.onerror rejects with the event.
ReadOutcomes == {"string", "notString", "errorEvent"}

fileToBase64(read) ==
    CASE read = "string"     -> [ok |-> TRUE, err |-> Thrown(FALSE, {})]
      [] read = "notString"  -> [ok |-> FALSE, err |-> Thrown(TRUE, {PhraseRead})]
      [] read = "errorEvent" -> [ok |-> FALSE, err |-> Thrown(FALSE, {})]

\* ai.models.generateContent: rejects with an Error, or resolves with a text.
ApiOutcomes ==
    {[rejects |-> TRUE, phrases |-> ps, text |-> TextUndefined] :
        ps \in {{PhraseNotFound}, {PhraseNetwork}}}
    \cup {[rejects |-> FALSE, phrases |-> {}, text |-> t] : t \in Texts}

\* solveMathProblem lines 83-95: trim, reject empty, parse, reject unparsable.
parseResponse(t) ==
    LET jsonStr == Trim(t) IN
    IF jsonStr = "" THEN Rejected(Thrown(TRUE, {PhraseEmpty}))
    ELSE IF jsonStr \in JsonBodies THEN Resolved(JSONparse(jsonStr))
         ELSE Rejected(Thrown(TRUE, {PhraseParse} \cup BodyPhrases(jsonStr)))

solveMathProblem(read, api) ==
    IF ~fileToBase64(read).ok THEN Rejected(fileToBase64(read).err)
    ELSE IF api.rejects THEN Rejected(Thrown(TRUE, api.phrases))
    ELSE parseResponse(api.text)

(***************************************************************************)
(* App.tsx                                                                 *)
(***************************************************************************)
\* The React state of App and of the FileUpload it renders, as one record:
\* handlers compute the next record, Commit renders it and runs the effects.
Cur ==
    [selectedFile |-> selectedFile, solution |-> solution, loading |-> loading,
     error |-> error, language |-> language, activeTab |-> activeTab,
     hasSelectedApiKey |-> hasSelectedApiKey, isPremiumUser |-> isPremiumUser,
     purchaseLoading |-> purchaseLoading, proceedWithApiKey |-> proceedWithApiKey,
     isCropping |-> isCropping, croppedAreaSet |-> croppedAreaSet]

\* useState initial values, App.tsx:34-43 and FileUpload (crop) lines 15-26.
InitialState ==
    [selectedFile |-> NoFile, solution |-> JsNull, loading |-> FALSE,
     error |-> NoError, language |-> "en", activeTab |-> "en",
     hasSelectedApiKey |-> FALSE, isPremiumUser |-> FALSE,
     purchaseLoading |-> FALSE, proceedWithApiKey |-> FALSE,
     isCropping |-> FALSE, croppedAreaSet |-> FALSE]

\* App.tsx:184
showFullApp(s) == s.isPremiumUser \/ s.proceedWithApiKey

\* SolutionDetails calls steps.map: rendering a truthy solution whose step
\* field of the active tab is not an array throws, and React unmounts the app.
ActiveSteps(s) == IF s.activeTab = "en" THEN "stepsEn" ELSE "stepsMs"
RenderThrows(s) ==
    showFullApp(s) /\ Truthy(s.solution) /\ ActiveSteps(s) \notin s.solution.lists
Alive == ~RenderThrows(Cur)

\* The solve effect, App.tsx:143-180.  Its dependencies are selectedFile,
\* text (= UI_TEXT[language]), isPremiumUser and proceedWithApiKey; fileObj
\* says that the handler stored a new File object.
DepsChanged(s, fileObj) ==
    \/ fileObj
    \/ s.selectedFile # selectedFile
    \/ s.language # language
    \/ s.isPremiumUser # isPremiumUser
    \/ s.proceedWithApiKey # proceedWithApiKey

\* fetchSolution's early return without the premium/proceed test.
FetchGuardFileOnly(s) == s.selectedFile # NoFile

\* fetchSolution line 146: the early return.
FetchGuard(s) ==
    ~(s.selectedFile = NoFile \/ (~s.isPremiumUser /\ ~s.proceedWithApiKey))

\* FileUpload after the render of s: it is mounted only in the full app; the
\* crop widget's effect on [selectedFile] (part_003:33-51) opens the crop
\* interface for a file and resets the crop state for none.
WidgetAfter(s, fileObj) ==
    IF ~showFullApp(s) \/ widget = "plain"
    THEN [s EXCEPT !.isCropping = FALSE, !.croppedAreaSet = FALSE]
    ELSE IF ~showFullApp(Cur)
    THEN [s EXCEPT !.isCropping = (s.selectedFile # NoFile), !.croppedAreaSet = FALSE]
    ELSE IF fileObj \/ s.selectedFile # selectedFile
    THEN IF s.selectedFile # NoFile
         THEN [s EXCEPT !.isCropping = TRUE]
         ELSE [s EXCEPT !.isCropping = FALSE, !.croppedAreaSet = FALSE]
    ELSE s

\* fetchSolution up to its await (lines 146-155): the state it sets.
FetchStart(s) ==
    [s EXCEPT !.loading = TRUE, !.error = NoError, !.solution = JsNull]

\* A solveMathProblem call in flight, with the isPremiumUser its closure saw.
Request(s) == [file |-> s.selectedFile, premium |-> s.isPremiumUser]

\* The settled promise that fetchSolution's continuation received, with the
\* isPremiumUser of its closure.
NoOutcome == [settled |-> FALSE, outcome |-> Rejected(Thrown(FALSE, {})), premium |-> FALSE]
Outcome(out, premium) == [settled |-> TRUE, outcome |-> out, premium |-> premium]

\* Render s and run the effects; pend is the bag of calls in flight after
\* the handler, e the handler's name.
Commit(s, fileObj, pend, e) ==
    LET runs == DepsChanged(s, fileObj) /\ FetchGuard(s)
        t == WidgetAfter(IF runs THEN FetchStart(s) ELSE s, fileObj)
    IN  /\ runs => BagCardinality(pend) < MaxPending
        /\ selectedFile' = t.selectedFile
        /\ solution' = t.solution
        /\ loading' = t.loading
        /\ error' = t.error
        /\ language' = t.language
        /\ activeTab' = t.activeTab
        /\ hasSelectedApiKey' = t.hasSelectedApiKey
        /\ isPremiumUser' = t.isPremiumUser
        /\ purchaseLoading' = t.purchaseLoading
        /\ proceedWithApiKey' = t.proceedWithApiKey
        /\ isCropping' = t.isCropping
        /\ croppedAreaSet' = t.croppedAreaSet
        /\ pending' = IF runs THEN pend (+) SetToBag({Request(s)}) ELSE pend
        /\ started' = runs
        /\ ev' = e

\* checkStatus with a truthiness test in place of === 'true'.
checkStatusTruthy(s, stored, ai, key) ==
    IF stored # "null"
    THEN [s EXCEPT !.isPremiumUser = TRUE, !.hasSelectedApiKey = TRUE]
    ELSE IF ai THEN s
    ELSE [s EXCEPT !.hasSelectedApiKey = key]

\* checkStatus up to its first await (App.tsx:49-66), applied to the initial
\* state: a stored 'true' makes the session premium and returns.
checkStatus(s, stored, ai, key) ==
    IF stored = "true"
    THEN [s EXCEPT !.isPremiumUser = TRUE, !.hasSelectedApiKey = TRUE]
    ELSE IF ai THEN s
    ELSE [s EXCEPT !.hasSelectedApiKey = key]

\* checkStatus consulting window.aistudio also for a premium session.
checkStatusAwaitsAlways(stored, ai) == ai

\* checkStatus is left awaiting window.aistudio.hasSelectedApiKey().
checkStatusAwaits(stored, ai) == stored # "true" /\ ai

Mounted(stored, ai, key) == checkStatus(InitialState, stored, ai, key)

(***************************************************************************)
(* Crop interface: values (part_003, utils/imageUtils.ts)                  *)
(*                                                                         *)
(* Lengths are whole pixels.  An affine map takes (x, y) to                *)
(* (a x + b y + e/2, c x + d y + f/2): the translation is kept doubled so  *)
(* that the halves of canvas.width / 2 stay integers.  A rectangle is kept *)
(* in twentieths of a pixel, which makes the factor 0.7 exact.             *)
(***************************************************************************)
Point(x, y) == [x |-> x, y |-> y]
Affine(a, b, c, d, e, f) == [a |-> a, b |-> b, c |-> c, d |-> d, e |-> e, f |-> f]
NoDraw == [blank |-> TRUE, m |-> Affine(0, 0, 0, 0, 0, 0)]
Drawn(m) == [blank |-> FALSE, m |-> m]
NoRect == [set |-> FALSE, x |-> 0, y |-> 0, width |-> 0, height |-> 0]
Rect(x, y, w, h) == [set |-> TRUE, x |-> x, y |-> y, width |-> w, height |-> h]
NoExport == [set |-> FALSE, rect |-> NoRect, m |-> Affine(0, 0, 0, 0, 0, 0),
             width |-> 0, height |-> 0]

\* useState and useRef initial values of the crop interface.
GeoInitial ==
    /\ imgW = 0
    /\ imgH = 0
    /\ crop = Point(0, 0)
    /\ zoom = 1
    /\ rotation = 0
    /\ croppedAreaPixels = NoRect
    /\ imageLoading = FALSE
    /\ imageError = FALSE
    /\ isDragging = FALSE
    /\ startPoint = Point(0, 0)
    /\ imageRefSet = FALSE
    /\ canvasMounted = FALSE
    /\ canvasW = 0
    /\ canvasH = 0
    /\ drawn = NoDraw
    /\ loads = EmptyBag
    /\ exported = NoExport

Init ==
    /\ localStorage \in StoredValues
    /\ aistudio \in BOOLEAN
    \* API_KEY is read only where window.aistudio is absent (App.tsx:60-65)
    /\ apiKey \in (IF aistudio THEN {FALSE} ELSE BOOLEAN)
    /\ widget \in {"plain", "crop"}
    /\ selectedFile = NoFile
    /\ solution = JsNull
    /\ loading = FALSE
    /\ error = NoError
    /\ language = "en"
    /\ activeTab = "en"
    /\ hasSelectedApiKey = Mounted(localStorage, aistudio, apiKey).hasSelectedApiKey
    /\ isPremiumUser = Mounted(localStorage, aistudio, apiKey).isPremiumUser
    /\ purchaseLoading = FALSE
    /\ proceedWithApiKey = FALSE
    /\ isCropping = FALSE
    /\ croppedAreaSet = FALSE
    /\ pending = EmptyBag
    /\ purchasePc = "idle"
    /\ checkPending = checkStatusAwaits(localStorage, aistudio)
    /\ selectPending = 0
    /\ ev = "mount"
    /\ started = FALSE
    /\ escaped = FALSE
    /\ settled = NoOutcome
    /\ storedAtMount = (localStorage = "true")
    /\ unlockEvent = FALSE
    /\ purchased = FALSE
    /\ GeoInitial

\* The page is loaded again: every timer, promise and React state of the old
\* page is gone, local storage stays, App mounts and its effects run.
Reload ==
    /\ Commit(Mounted(localStorage, aistudio, apiKey), FALSE, EmptyBag, "mount")
    /\ purchasePc' = "idle"
    /\ checkPending' = checkStatusAwaits(localStorage, aistudio)
    /\ selectPending' = 0
    /\ escaped' = FALSE
    /\ settled' = NoOutcome
    /\ storedAtMount' = (localStorage = "true")
    /\ unlockEvent' = FALSE
    /\ UNCHANGED <<envVars, widget, purchased, geo>>

\* checkStatus after its await, App.tsx:61-62.
CheckStatusResolved ==
    /\ Alive
    /\ checkPending
    /\ \E keySelected \in BOOLEAN :
          Commit([Cur EXCEPT !.hasSelectedApiKey = keySelected], FALSE, pending,
                 "checkStatusResolved")
    /\ checkPending' = FALSE
    /\ escaped' = FALSE
    /\ settled' = NoOutcome
    /\ UNCHANGED <<envVars, purchasePc, selectPending, widget,
                   storedAtMount, unlockEvent, purchased, geo>>

\* handleFileSelect without setSelectedFile(file).
handleFileSelectDropsFile(s, file) ==
    [s EXCEPT !.solution = JsNull, !.error = NoError]

\* App.tsx:71-75
handleFileSelect(s, file) ==
    [s EXCEPT !.selectedFile = file, !.solution = JsNull, !.error = NoError]

\* handleClear without the return to the entry screen.
handleClearKeepsProceed(s) ==
    [s EXCEPT !.selectedFile = NoFile, !.solution = JsNull,
              !.error = NoError, !.loading = FALSE]

\* App.tsx:77-86
handleClear(s) ==
    LET c == [s EXCEPT !.selectedFile = NoFile, !.solution = JsNull,
                       !.error = NoError, !.loading = FALSE]
    IN  IF ~s.isPremiumUser THEN [c EXCEPT !.proceedWithApiKey = FALSE] ELSE c

\* handleLanguageChange without setActiveTab(lang).
handleLanguageChangeKeepsTab(s, lang) ==
    [s EXCEPT !.language = lang]

\* App.tsx:88-91
handleLanguageChange(s, lang) ==
    [s EXCEPT !.language = lang, !.activeTab = lang]

\* App.tsx:106-109
handleProceedWithApiKey(s) ==
    [s EXCEPT !.proceedWithApiKey = TRUE, !.error = NoError]

\* Frame of a step that only changes React state.
OnlyReact ==
    /\ escaped' = FALSE
    /\ settled' = NoOutcome
    /\ UNCHANGED <<envVars, purchasePc, checkPending, selectPending, widget,
                   storedAtMount, unlockEvent, purchased, geo>>

\* The file input's change event: FileUpload.handleFileChange passes the
\* chosen photo to onFileSelect (FileUpload.tsx:27-32, part_003:54-60).  The
\* crop interface replaces the input while it is open.
FileChange ==
    /\ Alive
    /\ showFullApp(Cur)
    /\ ~isCropping
    /\ Commit(handleFileSelect(Cur, "original"), TRUE, pending, "handleFileChange")
    /\ OnlyReact

\* FileUpload.handleClear (FileUpload.tsx:34-39, part_003:62-76) calls
\* onClear and resets the crop state.
widgetClear(s) ==
    [handleClear(s) EXCEPT !.isCropping = FALSE, !.croppedAreaSet = FALSE]

\* The Clear button, shown for a selected file outside the crop interface.
Clear ==
    /\ Alive
    /\ showFullApp(Cur)
    /\ selectedFile # NoFile
    /\ ~isCropping
    /\ Commit(widgetClear(Cur), FALSE, pending, "handleClear")
    /\ OnlyReact

\* The Cancel button of the crop interface, part_003:275-277.
CropCancel ==
    /\ Alive
    /\ isCropping
    /\ Commit(widgetClear(Cur), FALSE, pending, "handleCropCancel")
    /\ OnlyReact

\* The draw effect of the crop interface with the image loaded and the canvas
\* mounted stores the crop frame (part_003:125-184).
CropDraw ==
    /\ Alive
    /\ isCropping
    /\ ~croppedAreaSet
    /\ Commit([Cur EXCEPT !.croppedAreaSet = TRUE], FALSE, pending, "drawImageOnCanvas")
    /\ OnlyReact

\* The Crop button, part_003:255-273: with an image and a crop frame, the
\* cropped file goes to onFileSelect and the crop interface is closed (the
\* effect on [selectedFile] then opens it again for the cropped file).
handleCropConfirm(s) ==
    IF s.croppedAreaSet
    THEN [handleFileSelect(s, "cropped") EXCEPT !.isCropping = FALSE]
    ELSE s

CropConfirm ==
    /\ Alive
    /\ isCropping
    /\ Commit(handleCropConfirm(Cur), croppedAreaSet, pending, "handleCropConfirm")
    /\ OnlyReact

\* LanguageSwitcher buttons (part_004:24-35).
LanguageChange ==
    /\ Alive
    /\ \E lang \in Languages :
          Commit(handleLanguageChange(Cur, lang), FALSE, pending, "handleLanguageChange")
    /\ OnlyReact

\* The solution tabs, App.tsx:301-322, rendered with a truthy solution.
TabClick ==
    /\ Alive
    /\ showFullApp(Cur)
    /\ Truthy(solution)
    /\ \E lang \in Languages :
          Commit([Cur EXCEPT !.activeTab = lang], FALSE, pending, "setActiveTab")
    /\ OnlyReact

\* The 'Continue' button of the gating screen, App.tsx:205-213.
Proceed ==
    /\ Alive
    /\ ~showFullApp(Cur)
    /\ hasSelectedApiKey
    /\ ~purchaseLoading
    /\ Commit(handleProceedWithApiKey(Cur), FALSE, pending, "handleProceedWithApiKey")
    /\ unlockEvent' = TRUE
    /\ escaped' = FALSE
    /\ settled' = NoOutcome
    /\ UNCHANGED <<envVars, purchasePc, checkPending, selectPending, widget,
                   storedAtMount, purchased, geo>>

\* The 'Select API Key' button, App.tsx:94-103 and 216-222: with
\* window.aistudio the handler awaits the dialog, without it sets an error.
SelectApiKey ==
    /\ Alive
    /\ ~showFullApp(Cur)
    /\ ~hasSelectedApiKey
    /\ ~purchaseLoading
    /\ IF aistudio
       THEN /\ selectPending < MaxDialogs
            /\ selectPending' = selectPending + 1
            /\ Commit(Cur, FALSE, pending, "handleSelectApiKey")
       ELSE /\ selectPending' = selectPending
            /\ Commit([Cur EXCEPT !.error = "aistudioUnavailable"], FALSE, pending,
                      "handleSelectApiKey")
    /\ escaped' = FALSE
    /\ settled' = NoOutcome
    /\ UNCHANGED <<envVars, purchasePc, checkPending, widget,
                   storedAtMount, unlockEvent, purchased, geo>>

\* handleSelectApiKey going on into the app after the dialog.
openSelectKeyResolvedProceeds(s) ==
    [s EXCEPT !.hasSelectedApiKey = TRUE, !.error = NoError,
              !.proceedWithApiKey = TRUE]

\* handleSelectApiKey after its await, App.tsx:97-99.
openSelectKeyResolved(s) ==
    [s EXCEPT !.hasSelectedApiKey = TRUE, !.error = NoError]

SelectKeyResolved ==
    /\ Alive
    /\ selectPending > 0
    /\ selectPending' = selectPending - 1
    /\ Commit(openSelectKeyResolved(Cur), FALSE, pending, "openSelectKeyResolved")
    /\ escaped' = FALSE
    /\ settled' = NoOutcome
    /\ UNCHANGED <<envVars, purchasePc, checkPending, widget,
                   storedAtMount, unlockEvent, purchased, geo>>

\* The promise of openSelectKey rejects: the await at App.tsx:96 throws and
\* the handler ends there, its rejection unhandled.
SelectKeyRejected ==
    /\ Alive
    /\ selectPending > 0
    /\ selectPending' = selectPending - 1
    /\ Commit(Cur, FALSE, pending, "openSelectKeyRejected")
    /\ escaped' = TRUE
    /\ settled' = NoOutcome
    /\ UNCHANGED <<envVars, purchasePc, checkPending, widget,
                   storedAtMount, unlockEvent, purchased, geo>>

\* handlePurchasePremium, App.tsx:112-139.
\* The start of the handler without setPurchaseLoading(true).
purchaseBeginNoLoading(s) ==
    [s EXCEPT !.error = NoError]

\* Up to the await: purchaseLoading, error cleared, the payment link opened.
purchaseBegin(s) ==
    [s EXCEPT !.purchaseLoading = TRUE, !.error = NoError]

\* The simulated success without setProceedWithApiKey(true).
purchaseSuccessNoProceed(s) ==
    [s EXCEPT !.isPremiumUser = TRUE, !.hasSelectedApiKey = TRUE,
              !.error = NoError, !.purchaseLoading = FALSE]

\* Lines 124-129 and the finally block: the simulated success.
purchaseSuccess(s) ==
    [s EXCEPT !.isPremiumUser = TRUE, !.hasSelectedApiKey = TRUE,
              !.error = NoError, !.proceedWithApiKey = TRUE,
              !.purchaseLoading = FALSE]

\* Lines 131-138: the catch and finally blocks.
purchaseCatch(s) ==
    [s EXCEPT !.error = "purchaseError", !.isPremiumUser = FALSE,
              !.purchaseLoading = FALSE]

\* The purchase button (App.tsx:245-249).  window.open may throw; then the
\* catch block runs in the same task, and its localStorage.setItem stores
\* 'false' or throws (storage disabled or full) and leaves the handler.
PurchasePremium ==
    /\ Alive
    /\ ~showFullApp(Cur)
    /\ ~purchaseLoading
    /\ \E openThrows \in BOOLEAN :
          IF openThrows
          THEN /\ Commit(purchaseCatch(purchaseBegin(Cur)), FALSE, pending,
                         "handlePurchasePremiumThrew")
               /\ \E catchStores \in BOOLEAN :
                     /\ localStorage' = IF catchStores THEN "false" ELSE localStorage
                     /\ escaped' = ~catchStores
               /\ purchasePc' = purchasePc
          ELSE /\ Commit(purchaseBegin(Cur), FALSE, pending, "handlePurchasePremium")
               /\ localStorage' = localStorage
               /\ escaped' = FALSE
               /\ purchasePc' = "timer"
    /\ settled' = NoOutcome
    /\ UNCHANGED <<aistudio, apiKey, checkPending, selectPending, widget,
                   storedAtMount, unlockEvent, purchased, geo>>

\* The 3 s timer fires and the handler continues.  localStorage.setItem may
\* throw (storage disabled or full): lines 124-125 have run, the catch block
\* runs, and its own setItem stores 'false' or throws again and leaves the
\* handler.
PurchaseTimer ==
    /\ purchasePc = "timer"
    /\ purchasePc' = "idle"
    /\ \E setItemThrows \in BOOLEAN :
          IF setItemThrows
          THEN /\ Commit(purchaseCatch([Cur EXCEPT !.hasSelectedApiKey = TRUE]),
                         FALSE, pending, "purchaseTimerThrew")
               /\ \E catchStores \in BOOLEAN :
                     /\ localStorage' = IF catchStores THEN "false" ELSE localStorage
                     /\ escaped' = ~catchStores
               /\ settled' = NoOutcome
               /\ UNCHANGED <<unlockEvent, purchased>>
          ELSE /\ Commit(purchaseSuccess(Cur), FALSE, pending, "purchaseTimer")
               /\ localStorage' = "true"
               /\ escaped' = FALSE
               /\ settled' = NoOutcome
               /\ unlockEvent' = TRUE
               /\ purchased' = TRUE
    /\ UNCHANGED <<aistudio, apiKey, checkPending, selectPending, widget,
                   storedAtMount, geo>>

\* fetchSolution after its await, lines 156-160 and 173-175.
fetchResolved(s, response) ==
    LET sol == IF response.type = "null" THEN JsUndefined ELSE response.solution
    IN  IF Truthy(sol)
        THEN [s EXCEPT !.solution = sol, !.loading = FALSE]
        ELSE [s EXCEPT !.error = "modelError", !.loading = FALSE]

\* The catch block reads err.message.includes: that throws for a value
\* without a message, and only the finally block runs.
catchThrows(err) == ~err.hasMessage

\* fetchSolution's catch and finally blocks, lines 161-175; premium is the
\* isPremiumUser of the render that started the request.
fetchRejected(s, err, premium) ==
    IF catchThrows(err)
    THEN [s EXCEPT !.loading = FALSE]
    ELSE IF ~premium /\ PhraseNotFound \in err.phrases
    THEN [s EXCEPT !.error = "apiKeyRequiredMessage", !.hasSelectedApiKey = FALSE,
                   !.proceedWithApiKey = FALSE, !.loading = FALSE]
    ELSE IF PhraseParse \in err.phrases
    THEN [s EXCEPT !.error = "modelError+message", !.loading = FALSE]
    ELSE [s EXCEPT !.error = "error", !.loading = FALSE]

Settle(q, r) == q (-) SetToBag({r})

\* Every way a solveMathProblem call can settle.
SolveOutcomes == {solveMathProblem(read, api) : read \in ReadOutcomes, api \in ApiOutcomes}

\* A solveMathProblem call resolves.
SolveResolved ==
    /\ Alive
    /\ \E req \in BagToSet(pending) :
          \E out \in {o \in SolveOutcomes : o.ok} :
             /\ Commit(fetchResolved(Cur, out.value), FALSE, Settle(pending, req),
                       "solveResolved")
             /\ settled' = Outcome(out, req.premium)
    /\ escaped' = FALSE
    /\ UNCHANGED <<envVars, purchasePc, checkPending, selectPending, widget,
                   storedAtMount, unlockEvent, purchased, geo>>

\* A solveMathProblem call rejects.
SolveRejected ==
    /\ Alive
    /\ \E req \in BagToSet(pending) :
          \E out \in {o \in SolveOutcomes : ~o.ok} :
             /\ Commit(fetchRejected(Cur, out.err, req.premium), FALSE,
                       Settle(pending, req), "solveRejected")
             /\ escaped' = catchThrows(out.err)
             /\ settled' = Outcome(out, req.premium)
    /\ UNCHANGED <<envVars, purchasePc, checkPending, selectPending, widget,
                   storedAtMount, unlockEvent, purchased, geo>>

Next ==
    \/ Reload
    \/ CheckStatusResolved
    \/ FileChange
    \/ Clear
    \/ CropCancel
    \/ CropDraw
    \/ CropConfirm
    \/ LanguageChange
    \/ TabClick
    \/ Proceed
    \/ SelectApiKey
    \/ SelectKeyResolved
    \/ SelectKeyRejected
    \/ PurchasePremium
    \/ PurchaseTimer
    \/ SolveResolved
    \/ SolveRejected

Spec == Init /\ [][Next]_vars

(***************************************************************************)
(* Crop interface: geometry                                                *)
(***************************************************************************)
Rotations == {0, 90, 180, 270}

\* Math.cos and Math.sin of rotation * Math.PI / 180 at the quarter turns.
Cos(deg) == CASE deg = 0 -> 1 [] deg = 90 -> 0 [] deg = 180 -> -1 [] deg = 270 -> 0
Sin(deg) == CASE deg = 0 -> 0 [] deg = 90 -> 1 [] deg = 180 -> 0 [] deg = 270 -> -1

\* m after n: the map p |-> m(n(p)), as ctx.translate/rotate/scale compose.
Compose(m, n) ==
    Affine(m.a * n.a + m.b * n.c, m.a * n.b + m.b * n.d,
           m.c * n.a + m.d * n.c, m.c * n.b + m.d * n.d,
           m.a * n.e + m.b * n.f + m.e, m.c * n.e + m.d * n.f + m.f)

\* Translation by (tx2 / 2, ty2 / 2).
Translate(tx2, ty2) == Affine(1, 0, 0, 1, tx2, ty2)
Rotate(deg) == Affine(Cos(deg), -Sin(deg), Sin(deg), Cos(deg), 0, 0)
Scale(z) == Affine(z, 0, 0, z, 0, 0)

Min(a, b) == IF a < b THEN a ELSE b

\* drawImageOnCanvas lines 136-156: where a point of the image lands on the
\* canvas raster.  drawImage at (initialX, initialY) with the effective size
\* scales the image by zoom.
drawTransform(w, h, cw, ch, cr, z, rot) ==
    LET initialX2 == (cw - w * z) + 2 * cr.x
        initialY2 == (ch - h * z) + 2 * cr.y
        ctm == Compose(Compose(Translate(cw, ch), Rotate(rot)), Translate(-cw, -ch))
    IN  Compose(ctm, Compose(Translate(initialX2, initialY2), Scale(z)))

\* drawImageOnCanvas lines 159-161 and 176-181: the crop frame, in
\* twentieths of a pixel.
cropFrame(cw, ch) ==
    LET size20 == 14 * Min(cw, ch)
    IN  Rect(10 * cw - 7 * Min(cw, ch), 10 * ch - 7 * Min(cw, ch), size20, size20)

\* The style of the canvas element, lines 315-317: translate, rotate, scale
\* about the centre of its box.
styleTransform(cw, ch, cr, z, rot) ==
    Compose(Compose(Compose(Compose(Translate(cw, ch), Translate(2 * cr.x, 2 * cr.y)),
                            Rotate(rot)), Scale(z)),
            Translate(-cw, -ch))

\* Where a point of the image is seen, relative to the canvas box.
onScreen(cw, ch, cr, z, rot, d) == Compose(styleTransform(cw, ch, cr, z, rot), d)

\* getRotatedImageSize, imageUtils.ts:37-46, at the quarter turns.
Abs(n) == IF n < 0 THEN -n ELSE n
getRotatedImageSize(w, h, rot) ==
    [width |-> Abs(Cos(rot) * w) + Abs(Sin(rot) * h),
     height |-> Abs(Sin(rot) * w) + Abs(Cos(rot) * h)]

\* getCroppedImg, imageUtils.ts:71-83: the canvas it renders on, the
\* transform it draws the image under and the rectangle it cuts out.
getCroppedImg(w, h, rect, rot, scale) ==
    LET size == getRotatedImageSize(w, h, rot)
        m == Compose(Compose(Compose(Translate(size.width, size.height), Rotate(rot)),
                             Scale(scale)),
                     Translate(-w, -h))
    IN  [set |-> TRUE, rect |-> rect, m |-> m,
         width |-> size.width, height |-> size.height]

\* A canvas element without width and height attributes (lines 312-321).
DefaultCanvasW == 300
DefaultCanvasH == 150

\* offsetWidth and offsetHeight of the crop container (lines 201-202).
Container == [w |-> 400, h |-> 300]

\* Lines 200-212: the canvas size for the loaded image; the width and height
\* attributes keep the integer part.
canvasSize(w, h) ==
    IF Container.w * h > Container.h * w
    THEN [w |-> (Container.h * w) \div h, h |-> Container.h]
    ELSE [w |-> Container.w, h |-> (Container.w * h) \div w]

(***************************************************************************)
(* Crop interface: one session, from the photo handed to it up to the      *)
(* confirmed crop (specification CropSpec)                                 *)
(***************************************************************************)
Photos == {Point(100 * k, 100) : k \in 1..MaxAspect}
Zooms == 1..MaxZoom
Pointers == {Point(10 * k, 20 * k) : k \in 0..MaxDrag}

\* What a drawImageOnCanvas closure has captured.
Closure(cr, z, rot) == [crop |-> cr, zoom |-> z, rotation |-> rot]

AppUnchanged ==
    /\ settled' = NoOutcome
    /\ UNCHANGED <<appVars, envVars, asyncVars, widget, isCropping,
                   started, escaped, storedAtMount, unlockEvent, purchased>>

\* App with the crop FileUpload in a premium session, the photo chosen and
\* its first solve attempt failed; the crop interface has rendered once and
\* its load effect has started createImage (part_003:33-38, 191-195).
CropInit ==
    /\ widget = "crop"
    /\ localStorage = "true"
    /\ aistudio = FALSE
    /\ apiKey = FALSE
    /\ selectedFile = "original"
    /\ solution = JsNull
    /\ loading = FALSE
    /\ error = "error"
    /\ language = "en"
    /\ activeTab = "en"
    /\ hasSelectedApiKey = TRUE
    /\ isPremiumUser = TRUE
    /\ purchaseLoading = FALSE
    /\ proceedWithApiKey = FALSE
    /\ isCropping = TRUE
    /\ croppedAreaSet = FALSE
    /\ pending = EmptyBag
    /\ purchasePc = "idle"
    /\ checkPending = FALSE
    /\ selectPending = 0
    /\ ev = "solveRejected"
    /\ started = FALSE
    /\ escaped = FALSE
    /\ settled = Outcome(Rejected(Thrown(TRUE, {PhraseNetwork})), TRUE)
    /\ storedAtMount = TRUE
    /\ unlockEvent = FALSE
    /\ purchased = FALSE
    /\ \E photo \in Photos : imgW = photo.x /\ imgH = photo.y
    /\ crop = Point(0, 0)
    /\ zoom = 1
    /\ rotation = 0
    /\ croppedAreaPixels = NoRect
    /\ imageLoading = TRUE
    /\ imageError = FALSE
    /\ isDragging = FALSE
    /\ startPoint = Point(0, 0)
    /\ imageRefSet = FALSE
    /\ canvasMounted = FALSE
    /\ canvasW = 0
    /\ canvasH = 0
    /\ drawn = NoDraw
    /\ loads = SetToBag({Closure(Point(0, 0), 1, 0)})
    /\ exported = NoExport

InSession == isCropping /\ exported = NoExport

\* The canvas and its pointer handlers are rendered (line 300).
CanvasShown == ~imageLoading /\ ~imageError

\* A render with new crop, zoom or rotation gives a new drawImageOnCanvas:
\* the draw effect (186-188) runs it on the canvas of that render, then the
\* load effect (191-224) sets imageLoading and starts createImage, and the
\* next render drops the canvas.
Redraw(cr, z, rot, e) ==
    /\ BagCardinality(loads) < MaxLoads
    /\ crop' = cr
    /\ zoom' = z
    /\ rotation' = rot
    /\ croppedAreaPixels' = IF imageRefSet /\ canvasMounted
                            THEN cropFrame(canvasW, canvasH)
                            ELSE croppedAreaPixels
    /\ croppedAreaSet' = (croppedAreaPixels'.set)
    /\ imageLoading' = TRUE
    /\ imageError' = FALSE
    /\ canvasMounted' = FALSE
    /\ canvasW' = 0
    /\ canvasH' = 0
    /\ drawn' = NoDraw
    /\ loads' = loads (+) SetToBag({Closure(cr, z, rot)})
    /\ ev' = e
    /\ UNCHANGED <<imgW, imgH, imageRefSet, exported>>
    /\ AppUnchanged

\* The zoom slider, lines 328-336.
ZoomChange ==
    /\ InSession
    /\ \E z \in Zooms \ {zoom} : Redraw(crop, z, rotation, "setZoom")
    /\ UNCHANGED <<isDragging, startPoint>>

\* Lines 251-253.
handleRotate == Redraw(crop, zoom, (rotation + 90) % 360, "handleRotate")

RotateClick ==
    /\ InSession
    /\ handleRotate
    /\ UNCHANGED <<isDragging, startPoint>>

\* Lines 231-237.
MouseDown ==
    /\ InSession
    /\ CanvasShown
    /\ \E p \in Pointers :
          /\ isDragging' = TRUE
          /\ startPoint' = Point(p.x - crop.x, p.y - crop.y)
    /\ ev' = "handleMouseDown"
    /\ UNCHANGED <<imgW, imgH, crop, zoom, rotation, croppedAreaPixels, croppedAreaSet,
                   imageLoading, imageError, imageRefSet, canvasMounted, canvasW,
                   canvasH, drawn, loads, exported>>
    /\ AppUnchanged

\* Lines 239-245; a move to the same offset changes no state.
MouseMove ==
    /\ InSession
    /\ CanvasShown
    /\ isDragging
    /\ \E p \in Pointers :
          /\ Point(p.x - startPoint.x, p.y - startPoint.y) # crop
          /\ Abs(p.x - startPoint.x) <= 10 * MaxDrag
          /\ Redraw(Point(p.x - startPoint.x, p.y - startPoint.y), zoom, rotation,
                    "handleMouseMove")
    /\ UNCHANGED <<isDragging, startPoint>>

\* Lines 247-249.
MouseUp ==
    /\ InSession
    /\ CanvasShown
    /\ isDragging
    /\ isDragging' = FALSE
    /\ ev' = "handleMouseUp"
    /\ UNCHANGED <<imgW, imgH, crop, zoom, rotation, croppedAreaPixels, croppedAreaSet,
                   imageLoading, imageError, startPoint, imageRefSet, canvasMounted,
                   canvasW, canvasH, drawn, loads, exported>>
    /\ AppUnchanged

\* createImage resolves, lines 196-217: with a canvas in the ref it is sized
\* for the image and the closure's drawImageOnCanvas draws on it; without
\* one nothing is drawn, and the render after setImageLoading(false) mounts
\* a new canvas.
LoadResolved ==
    /\ InSession
    /\ \E cl \in BagToSet(loads) :
          /\ loads' = loads (-) SetToBag({cl})
          /\ IF canvasMounted
             THEN /\ canvasW' = canvasSize(imgW, imgH).w
                  /\ canvasH' = canvasSize(imgW, imgH).h
                  /\ drawn' = Drawn(drawTransform(imgW, imgH, canvasW', canvasH',
                                                  cl.crop, cl.zoom, cl.rotation))
                  /\ croppedAreaPixels' = cropFrame(canvasW', canvasH')
                  /\ canvasMounted' = TRUE
             ELSE /\ canvasMounted' = ~imageError
                  /\ canvasW' = IF imageError THEN 0 ELSE DefaultCanvasW
                  /\ canvasH' = IF imageError THEN 0 ELSE DefaultCanvasH
                  /\ drawn' = NoDraw
                  /\ croppedAreaPixels' = croppedAreaPixels
    /\ croppedAreaSet' = (croppedAreaPixels'.set)
    /\ imageRefSet' = TRUE
    /\ imageLoading' = FALSE
    /\ ev' = "createImageResolved"
    /\ UNCHANGED <<imgW, imgH, crop, zoom, rotation, imageError, isDragging,
                   startPoint, exported>>
    /\ AppUnchanged

\* createImage rejects, lines 218-222.
LoadRejected ==
    /\ InSession
    /\ \E cl \in BagToSet(loads) : loads' = loads (-) SetToBag({cl})
    /\ imageError' = TRUE
    /\ imageLoading' = FALSE
    /\ canvasMounted' = FALSE
    /\ canvasW' = 0
    /\ canvasH' = 0
    /\ drawn' = NoDraw
    /\ ev' = "createImageRejected"
    /\ UNCHANGED <<imgW, imgH, crop, zoom, rotation, croppedAreaPixels, croppedAreaSet,
                   isDragging, startPoint, imageRefSet, exported>>
    /\ AppUnchanged

\* The Crop button, lines 255-273: getCroppedImg on the loaded image with
\* croppedAreaPixels, rotation and zoom; the file goes to onFileSelect, and
\* the effects on the new selectedFile reopen the interface, draw on the
\* canvas of that render and load the new file.
CropExport ==
    /\ InSession
    /\ imageRefSet
    /\ croppedAreaPixels.set
    /\ BagCardinality(loads) < MaxLoads
    /\ exported' = getCroppedImg(imgW, imgH, croppedAreaPixels, rotation, zoom)
    /\ Commit(handleCropConfirm(Cur), TRUE, pending, "handleCropConfirm")
    /\ croppedAreaPixels' = IF CanvasShown
                            THEN cropFrame(DefaultCanvasW, DefaultCanvasH)
                            ELSE croppedAreaPixels
    /\ imageLoading' = TRUE
    /\ imageError' = FALSE
    /\ canvasMounted' = FALSE
    /\ canvasW' = 0
    /\ canvasH' = 0
    /\ drawn' = NoDraw
    /\ loads' = loads (+) SetToBag({Closure(crop, zoom, rotation)})
    /\ escaped' = FALSE
    /\ settled' = NoOutcome
    /\ UNCHANGED <<imgW, imgH, crop, zoom, rotation, isDragging, startPoint, imageRefSet,
                   envVars, purchasePc, checkPending, selectPending, widget,
                   storedAtMount, unlockEvent, purchased>>

CropNext ==
    \/ ZoomChange
    \/ RotateClick
    \/ MouseDown
    \/ MouseMove
    \/ MouseUp
    \/ LoadResolved
    \/ LoadRejected
    \/ CropExport

CropSpec == CropInit /\ [][CropNext]_vars

\* Fairness: a timer that was set fires (setTimeout, App.tsx:121).
LiveSpec == Init /\ [][Next]_vars /\ WF_vars(PurchaseTimer)

(***************************************************************************)
(* Properties                                                              *)
(***************************************************************************)
GateOpen == isPremiumUser \/ proceedWithApiKey

\* Events of the upload/solution UI and of the gating screen's buttons.
FullAppEvents == {"handleFileChange", "drawImageOnCanvas", "handleCropConfirm", "setActiveTab"}
GatingEvents == {"handleSelectApiKey", "handlePurchasePremium", "handlePurchasePremiumThrew"}

\* C1: the upload/solution UI is rendered exactly when isPremiumUser or
\* proceedWithApiKey holds (its events happen only then, the gating screen's
\* only otherwise), and in a session mounted without a stored 'true' neither
\* flag is true before handleProceedWithApiKey has run or a purchase run
\* has completed.
C1_GatingUntilUnlocked ==
    /\ showFullApp(Cur) <=> GateOpen
    /\ ev \in FullAppEvents => GateOpen
    /\ ev \in GatingEvents => ~GateOpen
    /\ (~storedAtMount /\ ~unlockEvent) => ~GateOpen

C1_Witness ==
    /\ ~storedAtMount
    /\ unlockEvent
    /\ ev = "handleFileChange"
    /\ proceedWithApiKey
    /\ ~isPremiumUser

\* C2: a step calls solveMathProblem only in a render where selectedFile is
\* non-null and isPremiumUser or proceedWithApiKey holds; every call in
\* flight carries a file.
C2_SolveOnlyWhenGated ==
    /\ started => (selectedFile # NoFile /\ GateOpen)
    /\ \A r \in BagToSet(pending) : r.file # NoFile

C2_Witness ==
    /\ started
    /\ ev = "handleFileChange"
    /\ pending # EmptyBag

PurchaseEnded ==
    /\ isPremiumUser
    /\ hasSelectedApiKey
    /\ proceedWithApiKey
    /\ localStorage = "true"
    /\ error = NoError
    /\ ~purchaseLoading

\* C3: a handlePurchasePremium run that is waiting on its timer eventually
\* ends, and a run in which nothing throws ends with isPremiumUser,
\* hasSelectedApiKey and proceedWithApiKey true, 'true' stored, error null
\* and purchaseLoading false; nothing but the timer decides it.
C3_PurchaseSimulated ==
    /\ [](ev = "purchaseTimer" => PurchaseEnded)
    /\ ((purchasePc = "timer") ~> (purchasePc = "idle"))

C3_Witness ==
    /\ ev = "purchaseTimer"
    /\ PurchaseEnded
    /\ ~storedAtMount

\* C4: right after mount, a stored 'true' gives a premium session with
\* hasSelectedApiKey true, the full app shown and no call to window.aistudio;
\* any other stored value gives a non-premium session whose
\* hasSelectedApiKey comes from window.aistudio.hasSelectedApiKey() when
\* window.aistudio exists and from API_KEY otherwise.  A mount after a
\* successful purchase is premium.
C4_PremiumPersists ==
    /\ (ev = "mount" /\ storedAtMount) =>
          (isPremiumUser /\ hasSelectedApiKey /\ showFullApp(Cur) /\ ~checkPending)
    /\ (ev = "mount" /\ ~storedAtMount) =>
          /\ ~isPremiumUser
          /\ aistudio => (checkPending /\ ~hasSelectedApiKey)
          /\ ~aistudio => (~checkPending /\ hasSelectedApiKey = apiKey)
    /\ ev = "checkStatusResolved" => (aistudio /\ ~storedAtMount)
    /\ (ev = "mount" /\ purchased) => (isPremiumUser /\ showFullApp(Cur))

C4_Witness ==
    /\ ev = "mount"
    /\ purchased
    /\ isPremiumUser
    /\ aistudio

\* C5: with the crop widget, solveMathProblem is called only for the cropped
\* file: no step starts a request while selectedFile is the original upload,
\* and no call in flight carries the original upload.
C5_CropBeforeSubmit ==
    widget = "crop" =>
        /\ started => selectedFile = "cropped"
        /\ \A r \in BagToSet(pending) : r.file = "cropped"

\* The transform the specification gives for the image on screen:
\* translate(canvasCenter) rotate(rotation) translate(-canvasCenter) applied
\* to the image drawn with size (W z, H z) at
\* canvasCenter - (W z, H z) / 2 + (dx, dy).
SpecifiedTransform ==
    Compose(Compose(Compose(Translate(canvasW, canvasH), Rotate(rotation)),
                    Translate(-canvasW, -canvasH)),
            Compose(Translate((canvasW - imgW * zoom) + 2 * crop.x,
                              (canvasH - imgH * zoom) + 2 * crop.y),
                    Scale(zoom)))

\* C6: whenever the image is drawn on the mounted canvas, it is seen under
\* the specified transform for the current rotation, zoom and pan, each of
\* them applied once.
C6_OnScreenTransform ==
    (canvasMounted /\ ~drawn.blank) =>
        onScreen(canvasW, canvasH, crop, zoom, rotation, drawn.m) = SpecifiedTransform

\* C7: the crop rectangle kept for getCroppedImg has one fixed width and
\* height: once set, no later image load, canvas size, zoom, rotation or pan
\* changes them.
C7_FixedCropSize ==
    [][(croppedAreaPixels.set /\ croppedAreaPixels'.set) =>
          (/\ croppedAreaPixels'.width = croppedAreaPixels.width
           /\ croppedAreaPixels'.height = croppedAreaPixels.height)]_vars

\* The canvas whose crop frame a rectangle is (in pixels).
FrameCanvasW(rect) == (rect.x + rect.width \div 2) \div 10
FrameCanvasH(rect) == (rect.y + rect.height \div 2) \div 10

\* C8: the raster getCroppedImg cuts the rectangle from is the one
\* drawImageOnCanvas produces for the rotation, zoom and pan at the time of
\* the confirm: same canvas size, same transform of the image.
C8_ExportMatchesDisplay ==
    exported.set =>
        /\ exported.width = FrameCanvasW(exported.rect)
        /\ exported.height = FrameCanvasH(exported.rect)
        /\ exported.m = drawTransform(imgW, imgH, FrameCanvasW(exported.rect),
                                      FrameCanvasH(exported.rect), crop, zoom, rotation)

\* C9: a rejected solveMathProblem call ends with no exception leaving
\* fetchSolution, error a string and loading false (unless the same render
\* starts the next request).
C9_RejectionShown ==
    ev = "solveRejected" =>
        /\ ~escaped
        /\ started \/ (error # NoError /\ ~loading)

\* C10: a non-null solution has all six MathSolution fields, and both step
\* fields hold lists.
C10_SolutionComplete ==
    solution # JsNull =>
        /\ solution.type = "object"
        /\ solution.fields = SolutionFields
        /\ StepFields \subseteq solution.lists

\* Steps in which App receives a new File object.
FileEvents == {"handleFileChange", "handleCropConfirm"}

\* C11: a step starts a solve request only if it stores a new file or
\* changes isPremiumUser or proceedWithApiKey; handleLanguageChange starts
\* none and leaves solution, error and loading as they were.
C11_LanguageStartsNoRequest ==
    [][/\ started' =>
            \/ ev' \in FileEvents
            \/ selectedFile' # selectedFile
            \/ isPremiumUser' # isPremiumUser
            \/ proceedWithApiKey' # proceedWithApiKey
       /\ ev' = "handleLanguageChange" =>
            /\ ~started'
            /\ solution' = solution
            /\ error' = error
            /\ loading' = loading]_vars

\* Steps that run App's handleClear (FileUpload's onClear).
ClearEvents == {"handleClear", "handleCropCancel"}

\* C12: a step running handleClear ends with selectedFile, solution and
\* error null and loading false; for a non-premium user proceedWithApiKey
\* is false and the gating screen is shown, for a premium user
\* proceedWithApiKey is unchanged and the full app is shown; isPremiumUser,
\* hasSelectedApiKey, language and the stored premium flag are unchanged.
C12_ClearFrame ==
    [][ev' \in ClearEvents =>
          /\ selectedFile' = NoFile
          /\ solution' = JsNull
          /\ error' = NoError
          /\ loading' = FALSE
          /\ ~isPremiumUser => (~proceedWithApiKey' /\ ~(isPremiumUser' \/ proceedWithApiKey'))
          /\ isPremiumUser => (/\ proceedWithApiKey' = proceedWithApiKey
                               /\ (isPremiumUser' \/ proceedWithApiKey'))
          /\ isPremiumUser' = isPremiumUser
          /\ hasSelectedApiKey' = hasSelectedApiKey
          /\ language' = language
          /\ localStorage' = localStorage]_vars

C12_Witness ==
    /\ ev = "handleClear"
    /\ ~isPremiumUser
    /\ ~proceedWithApiKey
    /\ hasSelectedApiKey
    /\ selectedFile = NoFile
    /\ pending # EmptyBag

\* The rejection the step received has a message containing the phrase.
RejectedWith(o, phrase) ==
    /\ o.settled
    /\ ~o.outcome.ok
    /\ o.outcome.err.hasMessage
    /\ phrase \in o.outcome.err.phrases

\* C13: when a solve attempt fails with a message containing 'Requested
\* entity was not found.', a non-premium user ends on the gating screen with
\* error apiKeyRequiredMessage, hasSelectedApiKey and proceedWithApiKey false
\* and selectedFile kept; a premium user ends in the full app with the
\* generic error text and hasSelectedApiKey unchanged.
C13_NotFoundSendsToGate ==
    [][RejectedWith(settled', PhraseNotFound) =>
          /\ ~isPremiumUser =>
                /\ error' = "apiKeyRequiredMessage"
                /\ ~hasSelectedApiKey'
                /\ ~proceedWithApiKey'
                /\ ~(isPremiumUser' \/ proceedWithApiKey')
                /\ selectedFile' = selectedFile
          /\ isPremiumUser =>
                /\ error' = "error"
                /\ isPremiumUser' \/ proceedWithApiKey'
                /\ hasSelectedApiKey' = hasSelectedApiKey]_vars

\* response?.solution of a resolved value.
ResponseSolution(v) == IF v.type = "null" THEN JsUndefined ELSE v.solution

\* C14: a resolved response with a truthy solution sets solution and leaves
\* error as it was (null); a resolved response without one sets error to
\* modelError; a rejection whose message contains 'Failed to parse model
\* response' sets error to modelError followed by the message; every other
\* rejection sets error to the generic error text.  solveMathProblem rejects
\* exactly the empty and the unparsable texts and resolves with the parsed
\* value otherwise.
C14_OutcomeMessages ==
    [][settled'.settled =>
          LET o == settled'.outcome
              sol == ResponseSolution(o.value)
          IN  /\ (o.ok /\ Truthy(sol)) => (solution' = sol /\ error' = error)
              /\ (o.ok /\ ~Truthy(sol)) => error' = "modelError"
              /\ RejectedWith(settled', PhraseParse) => error' = "modelError+message"
              /\ (~o.ok /\ ~RejectedWith(settled', PhraseParse)) => error' = "error"
              /\ \A t \in Texts :
                    IF Trim(t) = "" \/ Trim(t) \notin JsonBodies
                    THEN ~parseResponse(t).ok
                    ELSE parseResponse(t) = Resolved(JSONparse(Trim(t)))]_vars

\* Steps of a handleSelectApiKey run.
SelectKeyEvents == {"handleSelectApiKey", "openSelectKeyResolved", "openSelectKeyRejected"}

\* C15: no step of a handleSelectApiKey run changes proceedWithApiKey or
\* which screen is shown.  With window.aistudio the click changes no state,
\* and the step after the dialog resolves sets hasSelectedApiKey true and
\* error null; without it the click sets an error string and leaves
\* hasSelectedApiKey as it was.  Nothing else of App's state changes.
C15_SelectKeyStaysGated ==
    [][ev' \in SelectKeyEvents =>
          /\ proceedWithApiKey' = proceedWithApiKey
          /\ isPremiumUser' = isPremiumUser
          /\ <<selectedFile, solution, loading, language, activeTab, purchaseLoading>>'
                = <<selectedFile, solution, loading, language, activeTab, purchaseLoading>>
          /\ ~started'
          /\ ev' = "handleSelectApiKey" =>
                /\ ~(isPremiumUser' \/ proceedWithApiKey')
                /\ hasSelectedApiKey' = hasSelectedApiKey
                /\ aistudio => (error' = error /\ selectPending' = selectPending + 1)
                /\ ~aistudio => (error' = "aistudioUnavailable" /\ selectPending' = selectPending)
          /\ ev' = "openSelectKeyResolved" =>
                (aistudio /\ hasSelectedApiKey' /\ error' = NoError)
          /\ ev' = "openSelectKeyRejected" =>
                (hasSelectedApiKey' = hasSelectedApiKey /\ error' = error)]_vars

C15_Witness ==
    /\ ev = "openSelectKeyResolved"
    /\ hasSelectedApiKey
    /\ ~proceedWithApiKey
    /\ ~isPremiumUser
    /\ ~storedAtMount

\* Steps that begin a handlePurchasePremium run, steps that end one, and
\* the clicks on the gating screen's three buttons.
PurchaseBeginEvents == {"handlePurchasePremium", "handlePurchasePremiumThrew"}
PurchaseEndEvents == {"purchaseTimer", "purchaseTimerThrew", "handlePurchasePremiumThrew"}
GatingClicks == PurchaseBeginEvents \cup {"handleSelectApiKey", "handleProceedWithApiKey"}

\* C16: purchaseLoading is true exactly while a handlePurchasePremium run
\* waits on its timer; a run begins only when none is in flight, and ends
\* with purchaseLoading false whether it succeeded or threw; while
\* purchaseLoading is true no click on the purchase, 'Select API Key' or
\* 'Continue' button is handled and proceedWithApiKey changes only when the
\* run ends.
C16_PurchaseLoading ==
    /\ [](purchaseLoading <=> purchasePc = "timer")
    /\ [][/\ ev' \in PurchaseBeginEvents => (~purchaseLoading /\ purchasePc = "idle")
          /\ ev' = "handlePurchasePremium" => purchaseLoading'
          /\ ev' \in PurchaseEndEvents => ~purchaseLoading'
          /\ purchaseLoading => ev' \notin GatingClicks
          /\ (purchaseLoading /\ purchaseLoading') =>
                proceedWithApiKey' = proceedWithApiKey]_vars

C16_Witness ==
    /\ purchaseLoading
    /\ purchasePc = "timer"
    /\ hasSelectedApiKey
    /\ ~proceedWithApiKey
    /\ ev # "handlePurchasePremium"

\* Steps in which the catch block of handlePurchasePremium ran.
PurchaseThrewEvents == {"handlePurchasePremiumThrew", "purchaseTimerThrew"}

\* C17: a handlePurchasePremium run in which something throws ends with
\* error the purchaseError text, isPremiumUser false, 'false' stored under
\* 'isPremiumUser', proceedWithApiKey unchanged, purchaseLoading false and
\* the gating screen shown.
C17_PurchaseFailure ==
    [][ev' \in PurchaseThrewEvents =>
          /\ error' = "purchaseError"
          /\ ~isPremiumUser'
          /\ localStorage' = "false"
          /\ proceedWithApiKey' = proceedWithApiKey
          /\ ~purchaseLoading'
          /\ ~(isPremiumUser' \/ proceedWithApiKey')]_vars

\* C18: a step in which FileUpload calls handleFileSelect ends with
\* selectedFile the new file, solution and error null and, the solve effect
\* having run, loading true and a request for that file started;
\* isPremiumUser, hasSelectedApiKey, proceedWithApiKey, language and
\* activeTab are unchanged.
C18_FileSelectFrame ==
    [][(ev' = "handleFileChange" \/ (ev' = "handleCropConfirm" /\ croppedAreaSet)) =>
          /\ selectedFile' = (IF ev' = "handleFileChange" THEN "original" ELSE "cropped")
          /\ solution' = JsNull
          /\ error' = NoError
          /\ loading'
          /\ started'
          /\ pending' = pending (+) SetToBag({[file |-> selectedFile', premium |-> isPremiumUser]})
          /\ <<isPremiumUser, hasSelectedApiKey, proceedWithApiKey, language, activeTab>>'
                = <<isPremiumUser, hasSelectedApiKey, proceedWithApiKey, language, activeTab>>]_vars

C18_Witness ==
    /\ ev = "handleFileChange"
    /\ selectedFile = "original"
    /\ loading
    /\ started
    /\ ~isPremiumUser
    /\ proceedWithApiKey
    /\ language = "ms"

\* C19: a handleLanguageChange step ends with language and activeTab equal;
\* a click on a solution tab changes activeTab at most, never language nor
\* any other cell, and starts no request; language and activeTab come to
\* differ only by such a click, and language changes only by
\* handleLanguageChange (or a new page load).
C19_LanguageAndTab ==
    [][/\ ev' = "handleLanguageChange" => language' = activeTab'
       /\ ev' = "setActiveTab" =>
            /\ language' = language
            /\ ~started'
            /\ <<selectedFile, solution, loading, error, hasSelectedApiKey,
                 isPremiumUser, purchaseLoading, proceedWithApiKey>>'
                  = <<selectedFile, solution, loading, error, hasSelectedApiKey,
                      isPremiumUser, purchaseLoading, proceedWithApiKey>>
       /\ (language = activeTab /\ language' # activeTab') => ev' = "setActiveTab"
       /\ language' # language => ev' \in {"handleLanguageChange", "mount"}]_vars

C19_Witness ==
    /\ ev = "setActiveTab"
    /\ language = "ms"
    /\ activeTab = "en"
    /\ Alive

====
